---- MODULE Spec2Model ----
(***************************************************************************)
(* A model of build.py, the build orchestrator of the Odin + Sokol hot     *)
(* reload template: argument validation, the dependency bootstrap, the     *)
(* dependency compile step, the shader fan-out and the three build         *)
(* pipelines, as a state machine over successive invocations that share    *)
(* the on-disk artifact layout.                                            *)
(***************************************************************************)
EXTENDS Integers, Sequences, FiniteSets, TLC

\* ------------------------------------------------------------------ bounds
\* Number of .glsl files os.walk("source") finds in an invocation.
NumShaders == 2
\* Largest numeric suffix of a symbol file present when SpecPdb starts.
MaxSuffix == 7
\* Number of invocations that may follow the first one.
MaxRuns == 3
\* Largest number of symbol files the symbol directory is let to hold.
MaxPdbFiles == 4

VARIABLES
    SYSTEM,         \* platform.system(), fixed for the machine
    emcc_on_path,   \* shutil.which("emcc") finds the web toolchain
    game_alive,     \* a process named game_hot_reload<ext> is running
    args,           \* the parsed command line of the current invocation
    pc,             \* position of the current invocation
    error,          \* how the invocation ended ("none": exit status 0)
    do_update,      \* main's local
    do_compile,     \* main's local
    exe_path,       \* main's local: "", "None" or the executable path
    launched,       \* subprocess.Popen(exe_path) was called
    log,            \* phases this invocation entered, in order
    sokol_dir,      \* source/sokol: "absent" or "present"
    shdc_dir,       \* sokol-shdc:   "absent" or "present"
    shader_i,       \* shader files compiled so far by build_shaders
    game_running,   \* build_hot_reload's local: the probe's result
    pdb_number,     \* build_hot_reload's local
    pdb_index,      \* index passed as -pdb-name game_<i>.pdb (0: none yet)
    pdb_dir_exists, \* build/hot_reload/game_pdbs exists
    pdb_files,      \* numeric suffixes n of the game_<n>.pdb files in it
    max_written_index, \* history: largest index whose file any build wrote
    gen_used_index, \* history: largest index used since the last reset
    gen_written_index, \* history: largest index whose file was written since the last reset
    web_out,        \* files in build/web
    release_out,    \* files in build/release
    cmds,           \* commands this invocation ran through execute, in order
    fetch_count,    \* archives this invocation fetched
    cmd_failed,     \* a command run through execute returned non-zero
    wasm_libs_built, \* compile_sokol ran the web (WASM) library build
    runs,           \* history: invocations that have ended
    shader_langs,   \* dialects passed to the shader compiler with -l
    dll,            \* build_hot_reload's local: the file the compiler writes
    probes,         \* calls of process_exists in this invocation
    reset_done,     \* this invocation did the staging reset
    lib_copies,     \* shutil.copyfile calls per staged library
    assets,         \* files of the asset tree
    prev_release,   \* history: build/release as the last clean found it
    lib_src,        \* size and mtime of each runtime library under source/sokol
    lib_dest,       \* the staged copy of each runtime library
    dll_final,      \* content of build/hot_reload/game<ext>
    dll_tmp,        \* content of build/hot_reload/game_tmp<ext>
    dll_copies,     \* other .dll files lie in build/hot_reload
    lib_staged      \* history: libraries an ended build has staged

vars == <<SYSTEM, emcc_on_path, game_alive, args, pc, error, do_update,
          do_compile, exe_path, launched, log, sokol_dir, shdc_dir, shader_i,
          game_running, pdb_number, pdb_index, pdb_dir_exists, pdb_files,
          max_written_index, gen_used_index, gen_written_index, web_out,
          release_out, cmds, fetch_count, cmd_failed,
          wasm_libs_built, runs, shader_langs, dll, probes, reset_done,
          lib_copies, assets, prev_release, lib_src, lib_dest, dll_final,
          dll_tmp, dll_copies, lib_staged>>

\* The on-disk state shared by successive invocations.
disk == <<sokol_dir, shdc_dir, pdb_dir_exists, pdb_files, web_out, release_out>>

\* main's and the pipelines' locals
locals == <<do_update, do_compile, exe_path, shader_i, game_running,
            pdb_number, pdb_index>>

history == <<max_written_index, gen_used_index, gen_written_index>>

\* The asset tree, the runtime libraries and the component files on disk.
artifacts == <<assets, lib_src, lib_dest, dll_final, dll_tmp, dll_copies,
               lib_staged>>

\* Further locals of build_shaders and build_hot_reload.
pipeline_locals == <<shader_langs, dll, probes, reset_done, lib_copies>>


machine == <<SYSTEM, emcc_on_path>>

\* What stays as it is when no command is run through execute.
no_exec == <<cmds, cmd_failed>>

\* ------------------------------------------------------------ the request
IS_WINDOWS == SYSTEM = "Windows"
IS_OSX == SYSTEM = "Darwin"
IS_LINUX == SYSTEM = "Linux"

Systems == {"Windows", "Darwin", "Linux"}

\* Every command line argparse accepts.
Requests ==
    [hot_reload : BOOLEAN, release : BOOLEAN, web : BOOLEAN,
     update_sokol : BOOLEAN, compile_sokol : BOOLEAN, run : BOOLEAN,
     debug : BOOLEAN, no_shader_compile : BOOLEAN,
     emsdk_path : {"None", "/emsdk"}, gl : BOOLEAN]

\* Hot-reload requests with the dependencies left alone.
HotReloadRequests ==
    {a \in Requests : /\ a.hot_reload /\ ~a.release /\ ~a.web
                      /\ ~a.update_sokol /\ ~a.compile_sokol
                      /\ a.emsdk_path = "None" /\ a.no_shader_compile}

NoRequest ==
    [hot_reload |-> FALSE, release |-> FALSE, web |-> FALSE,
     update_sokol |-> FALSE, compile_sokol |-> FALSE, run |-> FALSE,
     debug |-> FALSE, no_shader_compile |-> FALSE,
     emsdk_path |-> "None", gl |-> FALSE]

\* The count with the -web flag left out.
num_build_modes_no_web(a) ==
    (IF a.hot_reload THEN 1 ELSE 0) + (IF a.release THEN 1 ELSE 0)

num_build_modes(a) ==
    (IF a.hot_reload THEN 1 ELSE 0) + (IF a.release THEN 1 ELSE 0)
        + (IF a.web THEN 1 ELSE 0)

Errors == {"none", "ConfigurationError", "ToolchainNotFound",
           "ExternalProcessFailure", "NetworkFailure",
           "PlatformPrerequisiteMissing", "FileNotFoundError", "TypeError"}

ExitCode == IF error = "none" THEN 0 ELSE 1

\* exit(1), or an uncaught exception: the interpreter stops with status 1.
Exit(e) == /\ pc' = "exited"
           /\ error' = e

\* execute without the exit(1): the failure is printed and the run goes on.
execute_no_exit(cmd, res, next_pc) ==
    /\ cmds' = Append(cmds, cmd)
    /\ cmd_failed' = (cmd_failed \/ res # 0)
    /\ pc' = next_pc
    /\ error' = error

\* execute(cmd): run cmd and stop the invocation when it returns non-zero.
execute(cmd, res, next_pc) ==
    /\ cmds' = Append(cmds, cmd)
    /\ cmd_failed' = (cmd_failed \/ res # 0)
    /\ IF res # 0 THEN Exit("ExternalProcessFailure")
       ELSE pc' = next_pc /\ error' = error

ExitStatuses == {0, 1}

\* ---------------------------------------------------------- files on disk
\* Content of a component file: none, what a failed compile left, the
\* output of a compile of an earlier invocation, the output of the compile
\* of this invocation.
Absent == "absent"
Partial == "partial"
Contents == {"absent", "partial", "old", "new"}

\* When an invocation has ended, what it built is the output of an earlier
\* invocation.
aged(content) == IF content = "new" THEN "old" ELSE content

\* Lines 221-225, 229-243: the runtime libraries a host OS may stage: the
\* four sokol_dll_windows_x64_<gfxapi>_<type>.dll, the files of
\* source/sokol/dylib.
WindowsLibs == {"d3d11_release", "d3d11_debug", "gl_release", "gl_debug"}
Dylibs == {"sokol_app.dylib", "sokol_gfx.dylib"}
Libs == WindowsLibs \cup Dylibs

\* No file at the destination.
NoFile == [exists |-> FALSE, size |-> 0, mtime |-> 0]

\* Sizes and modification times a library file can have before the first
\* invocation starts.
Sizes == {10, 20}
SrcTimes == {0, 1}

\* The files of the assets directory.
AssetFiles == {"atlas.png", "level.json"}

\* ------------------------------------------------------------------- Init
InitCommon ==
    /\ SYSTEM \in Systems
    /\ emcc_on_path \in BOOLEAN
    /\ game_alive = FALSE
    /\ args = NoRequest
    /\ pc = "start"
    /\ error = "none"
    /\ do_update = FALSE
    /\ do_compile = FALSE
    /\ exe_path = ""
    /\ launched = FALSE
    /\ log = <<>>
    /\ shader_i = 0
    /\ game_running = FALSE
    /\ pdb_number = 0
    /\ pdb_index = 0
    /\ web_out = {}
    /\ release_out = {}
    /\ cmds = <<>>
    /\ fetch_count = 0
    /\ cmd_failed = FALSE
    /\ wasm_libs_built = FALSE
    /\ runs = 0
    /\ shader_langs = {}
    /\ dll = ""
    /\ probes = 0
    /\ reset_done = FALSE
    /\ lib_copies = [l \in Libs |-> 0]
    /\ prev_release = {}
    /\ dll_tmp = Absent
    /\ lib_staged = {}

\* A checkout with its asset tree and built runtime libraries, nothing
\* staged and no component built yet.
InitArtifacts ==
    /\ assets = AssetFiles
    /\ lib_src = [l \in Libs |-> [exists |-> TRUE, size |-> 10, mtime |-> 0]]
    /\ lib_dest = [l \in Libs |-> NoFile]
    /\ dll_final = Absent
    /\ dll_copies = FALSE

Init ==
    /\ InitCommon
    /\ sokol_dir \in {"absent", "present"}
    /\ shdc_dir \in {"absent", "present"}
    /\ pdb_dir_exists = FALSE
    /\ pdb_files = {}
    /\ max_written_index = 0
    /\ gen_used_index = 0
    /\ gen_written_index = 0
    /\ InitArtifacts

\* ------------------------------------------------------- lines 30-45: args
\* Line 30: args_parser.parse_args() of a new invocation.
parse_args(requests) ==
    /\ pc = "start"
    /\ \E a \in requests : args' = a
    /\ pc' = "validate"
    /\ UNCHANGED <<machine, game_alive, error, locals, launched, log, disk,
                   history, runs, no_exec, fetch_count, wasm_libs_built,
                   artifacts, pipeline_locals, prev_release>>

\* Lines 32-45: the build-mode count and the two configuration errors.
validate ==
    /\ pc = "validate"
    /\ IF num_build_modes(args) > 1
       THEN Exit("ConfigurationError")
       ELSE IF num_build_modes(args) = 0 /\ ~args.update_sokol
                  /\ ~args.compile_sokol
            THEN Exit("ConfigurationError")
            ELSE pc' = "main" /\ error' = error
    /\ UNCHANGED <<artifacts, pipeline_locals, prev_release, runs, machine, game_alive, args, locals, launched, log, disk,
                   history, no_exec, fetch_count, wasm_libs_built>>

\* ------------------------------------------------------ lines 54-83: main
\* do_update when either artifact directory is missing.
main_do_update_either(a, sokol, shdc) ==
    a.update_sokol \/ sokol = "absent" \/ shdc = "absent"

\* do_update also when the compile step is requested.
main_do_update_on_compile(a, sokol, shdc) ==
    a.update_sokol \/ a.compile_sokol
        \/ (sokol = "absent" /\ shdc = "absent")

\* Lines 55-59: do_update, from the flag and the two artifact directories.
main_do_update(a, sokol, shdc) ==
    a.update_sokol \/ (sokol = "absent" /\ shdc = "absent")

\* Lines 55-62: the bootstrap gate.
main_update ==
    /\ pc = "main"
    /\ do_update' = main_do_update(args, sokol_dir, shdc_dir)
    /\ IF do_update'
       THEN pc' = "update_sokol_bindings" /\ log' = Append(log, "bootstrap")
       ELSE pc' = "main_compile" /\ log' = log
    /\ UNCHANGED <<artifacts, pipeline_locals, prev_release, runs, machine, game_alive, args, error, do_compile, exe_path,
                   launched, shader_i, game_running, pdb_number, pdb_index,
                   disk, history, no_exec, fetch_count, wasm_libs_built>>


\* update_sokol for the bindings with the download before the delete: a
\* failed fetch leaves the old directory in place.
update_sokol_bindings_fetch_first ==
    /\ pc = "update_sokol_bindings"
    /\ fetch_count' = fetch_count + 1
    /\ \E fetched \in BOOLEAN :
        IF fetched
        THEN sokol_dir' = "present" /\ pc' = "update_sokol_shdc"
             /\ error' = error
        ELSE sokol_dir' = sokol_dir /\ Exit("NetworkFailure")
    /\ UNCHANGED <<artifacts, pipeline_locals, prev_release, runs, machine,
                   game_alive, args, locals, launched, log, shdc_dir,
                   pdb_dir_exists, pdb_files, web_out, release_out, history,
                   no_exec, wasm_libs_built>>

\* Lines 363-379: delete source/sokol, fetch the archive, install it.
update_sokol_bindings ==
    /\ pc = "update_sokol_bindings"
    /\ fetch_count' = fetch_count + 1
    /\ \E fetched \in BOOLEAN :
        IF fetched
        THEN sokol_dir' = "present" /\ pc' = "update_sokol_shdc"
             /\ error' = error
        ELSE sokol_dir' = "absent" /\ Exit("NetworkFailure")
    /\ UNCHANGED <<artifacts, pipeline_locals, prev_release, runs, machine, game_alive, args, locals, launched, log, shdc_dir,
                   pdb_dir_exists, pdb_files, web_out, release_out, history,
                   no_exec, wasm_libs_built>>

\* Lines 381-394: delete sokol-shdc, fetch the archive, install it.
update_sokol_shdc ==
    /\ pc = "update_sokol_shdc"
    /\ fetch_count' = fetch_count + 1
    /\ \E fetched \in BOOLEAN :
        IF fetched
        THEN /\ shdc_dir' = "present"
             /\ pc' = IF IS_LINUX \/ IS_OSX THEN "chmod_1" ELSE "main_compile"
             /\ error' = error
        ELSE shdc_dir' = "absent" /\ Exit("NetworkFailure")
    /\ UNCHANGED <<artifacts, pipeline_locals, prev_release, runs, machine, game_alive, args, locals, launched, log,
                   sokol_dir, pdb_dir_exists, pdb_files, web_out, release_out,
                   history, no_exec, wasm_libs_built>>

\* Lines 396-402: chmod +x on the two shader-compiler binaries of the host OS.
update_sokol_shdc_chmod ==
    /\ pc \in {"chmod_1", "chmod_2"}
    /\ \E res \in ExitStatuses :
        execute("chmod", res, IF pc = "chmod_1" THEN "chmod_2" ELSE "main_compile")
    /\ UNCHANGED <<artifacts, pipeline_locals, prev_release, runs, machine, game_alive, args, locals, launched, log, disk,
                   history, fetch_count, wasm_libs_built>>

\* Lines 64-67: the dependency compile gate.
main_compile ==
    /\ pc = "main_compile"
    /\ do_compile' = (do_update \/ args.compile_sokol)
    /\ IF do_compile'
       THEN pc' = "compile_sokol" /\ log' = Append(log, "compile_sokol")
       ELSE pc' = "main_shaders" /\ log' = log
    /\ UNCHANGED <<artifacts, pipeline_locals, prev_release, runs, machine, game_alive, args, error, do_update, exe_path,
                   launched, shader_i, game_running, pdb_number, pdb_index,
                   disk, history, no_exec, fetch_count, wasm_libs_built>>

\* Lines 460-469: the activation command is set exactly when -emsdk-path is.
get_emscripten_env_command(a) == a.emsdk_path # "None"

\* Lines 411-412: os.chdir(SOKOL_PATH) raises when the directory is missing.
compile_sokol ==
    /\ pc = "compile_sokol"
    /\ IF sokol_dir = "present"
       THEN pc' = "compile_native" /\ error' = error
       ELSE Exit("FileNotFoundError")
    /\ UNCHANGED <<artifacts, pipeline_locals, prev_release, runs, machine, game_alive, args, locals, launched, log, disk,
                   history, no_exec, fetch_count, wasm_libs_built>>

\* Lines 418-422, 433, 445-446: the native library scripts of the host OS.
compile_sokol_native ==
    /\ pc \in {"compile_native", "compile_native_dylib"}
    /\ IF IS_WINDOWS
       THEN \E cl \in BOOLEAN :
              IF cl THEN \E res \in ExitStatuses :
                          execute("build_clibs", res, "compile_wasm")
              ELSE pc' = "compile_wasm" /\ UNCHANGED <<error, no_exec>>
       ELSE \E res \in ExitStatuses :
              execute("build_clibs", res,
                      IF IS_OSX /\ pc = "compile_native"
                      THEN "compile_native_dylib" ELSE "compile_wasm")
    /\ UNCHANGED <<artifacts, pipeline_locals, prev_release, runs, machine, game_alive, args, locals, launched, log, disk,
                   history, fetch_count, wasm_libs_built>>

\* Lines 424-430, 435-442, 448-457: the web (WASM) libraries.
compile_sokol_wasm ==
    /\ pc = "compile_wasm"
    /\ LET emsdk_env == get_emscripten_env_command(args)
           wasm == IF IS_WINDOWS THEN emsdk_env \/ emcc_on_path
                   ELSE ~emsdk_env /\ emcc_on_path
       IN  IF wasm
           THEN \E res \in ExitStatuses :
                  /\ execute("build_clibs_wasm", res, "main_shaders")
                  /\ wasm_libs_built' = (res = 0)
           ELSE /\ pc' = "main_shaders"
                /\ UNCHANGED <<error, no_exec, wasm_libs_built>>
    /\ UNCHANGED <<artifacts, pipeline_locals, prev_release, runs, machine, game_alive, args, locals, launched, log, disk,
                   history, fetch_count>>

\* Lines 69-70: shaders unless suppressed.
main_shaders ==
    /\ pc = "main_shaders"
    /\ pc' = IF ~args.no_shader_compile THEN "get_shader_compiler"
             ELSE "main_dispatch"
    /\ UNCHANGED <<artifacts, pipeline_locals, prev_release, runs, machine, game_alive, args, error, locals, launched, log,
                   disk, history, no_exec, fetch_count, wasm_libs_built>>

\* get_shader_compiler with the assert compiled away.
get_shader_compiler_no_assert ==
    /\ pc = "get_shader_compiler"
    /\ pc' = "build_shaders"
    /\ UNCHANGED <<artifacts, pipeline_locals, prev_release, runs, machine, game_alive, args, error, locals, launched,
                   log, disk, history, no_exec, fetch_count, wasm_libs_built>>

\* Lines 114-133: the binary of the host OS must exist under sokol-shdc.
get_shader_compiler ==
    /\ pc = "get_shader_compiler"
    /\ IF shdc_dir = "present"
       THEN pc' = "build_shaders" /\ error' = error
       ELSE Exit("ToolchainNotFound")
    /\ UNCHANGED <<artifacts, pipeline_locals, prev_release, runs, machine, game_alive, args, locals, launched, log, disk,
                   history, no_exec, fetch_count, wasm_libs_built>>

\* The dialect choice with the host OS tested before the web option.
langs_os_first(system, a) ==
    IF system = "Windows" THEN (IF a.gl THEN "glsl430" ELSE "hlsl5")
    ELSE IF system = "Linux" THEN "glsl430"
    ELSE IF system = "Darwin" THEN (IF a.gl THEN "glsl410" ELSE "metal_macos")
    ELSE IF a.web THEN "glsl300es"
    ELSE ""

\* Lines 101-110: the dialect passed with -l.
langs(system, a) ==
    IF a.web THEN "glsl300es"
    ELSE IF system = "Windows" THEN (IF a.gl THEN "glsl430" ELSE "hlsl5")
    ELSE IF system = "Linux" THEN "glsl430"
    ELSE IF system = "Darwin" THEN (IF a.gl THEN "glsl410" ELSE "metal_macos")
    ELSE ""

\* Lines 96-112: one shader compiler run per discovered file.
build_shaders ==
    /\ pc = "build_shaders"
    /\ IF shader_i < NumShaders
       THEN /\ \E res \in ExitStatuses :
                    /\ execute("sokol-shdc", res, "build_shaders")
                    /\ shader_i' = IF res = 0 THEN shader_i + 1 ELSE shader_i
            /\ shader_langs' = shader_langs \cup {langs(SYSTEM, args)}
            /\ log' = log
       ELSE /\ pc' = "main_dispatch"
            /\ log' = Append(log, "shaders")
            /\ UNCHANGED <<error, no_exec, shader_i, shader_langs>>
    /\ UNCHANGED <<artifacts, dll, probes, reset_done, lib_copies,
                   prev_release, runs, machine, game_alive, args, do_update,
                   do_compile, exe_path,
                   launched, game_running, pdb_number, pdb_index, disk,
                   history, fetch_count, wasm_libs_built>>

\* The dispatch with the web and hot-reload branches exchanged.
main_dispatch_swapped ==
    /\ pc = "main_dispatch"
    /\ IF args.release
       THEN pc' = "build_release" /\ log' = Append(log, "build_release")
       ELSE IF args.hot_reload
       THEN pc' = "build_web" /\ log' = Append(log, "build_web")
       ELSE IF args.web
       THEN pc' = "build_hot_reload" /\ log' = Append(log, "build_hot_reload")
       ELSE pc' = "main_run" /\ log' = log
    /\ UNCHANGED <<artifacts, pipeline_locals, prev_release, runs, machine, game_alive, args, error, locals, launched,
                   disk, history, no_exec, fetch_count, wasm_libs_built>>

\* Lines 72-79: exactly one pipeline, chosen by the mode flag.
main_dispatch ==
    /\ pc = "main_dispatch"
    /\ IF args.release
       THEN pc' = "build_release" /\ log' = Append(log, "build_release")
       ELSE IF args.web
       THEN pc' = "build_web" /\ log' = Append(log, "build_web")
       ELSE IF args.hot_reload
       THEN pc' = "build_hot_reload" /\ log' = Append(log, "build_hot_reload")
       ELSE pc' = "main_run" /\ log' = log
    /\ UNCHANGED <<artifacts, pipeline_locals, prev_release, runs, machine, game_alive, args, error, locals, launched, disk,
                   history, no_exec, fetch_count, wasm_libs_built>>

\* ------------------------------------------- lines 247-275: build_release
\* build_release without the rmtree of lines 250-251.
build_release_no_clean ==
    /\ pc = "build_release"
    /\ prev_release' = release_out
    /\ release_out' = release_out
    /\ pc' = "release_compile"
    /\ UNCHANGED <<artifacts, pipeline_locals, runs, machine, game_alive,
                   args, error, locals, launched, log, sokol_dir, shdc_dir,
                   pdb_dir_exists, pdb_files, web_out, history, no_exec,
                   fetch_count, wasm_libs_built>>

\* Lines 248-253: rmtree(out_dir) when present, then make_dirs(out_dir).
build_release ==
    /\ pc = "build_release"
    /\ prev_release' = release_out
    /\ release_out' = {}
    /\ pc' = "release_compile"
    /\ UNCHANGED <<artifacts, pipeline_locals, runs, machine, game_alive,
                   args, error, locals, launched, log, sokol_dir, shdc_dir,
                   pdb_dir_exists, pdb_files, web_out, history, no_exec,
                   fetch_count, wasm_libs_built>>

\* Lines 255-275: compile the executable, copy the asset tree, return exe.
build_release_compile ==
    /\ pc = "release_compile"
    /\ \E res \in ExitStatuses :
        /\ execute("odin build main_release", res, "main_run")
        /\ IF res = 0
           THEN /\ release_out' = release_out \cup {"game_release"} \cup assets
                /\ exe_path' = "build/release/game_release"
                /\ log' = Append(log, "returned")
           ELSE UNCHANGED <<release_out, exe_path, log>>
    /\ UNCHANGED <<artifacts, pipeline_locals, prev_release, runs, machine, game_alive, args, do_update, do_compile,
                   shader_i, game_running, pdb_number, pdb_index, launched,
                   sokol_dir, shdc_dir, pdb_dir_exists, pdb_files, web_out,
                   history, fetch_count, wasm_libs_built>>

\* ----------------------------------------------- lines 277-336: build_web
\* Lines 278-287: make_dirs(out_dir), compile the js_wasm32 object file.
build_web ==
    /\ pc = "build_web"
    /\ \E res \in ExitStatuses :
        /\ execute("odin build main_web", res, "web_glue")
        /\ web_out' = IF res = 0 THEN web_out \cup {"game.wasm.o"}
                      ELSE web_out
    /\ UNCHANGED <<artifacts, pipeline_locals, prev_release, runs, machine, game_alive, args, locals, launched, log,
                   sokol_dir, shdc_dir, pdb_dir_exists, pdb_files,
                   release_out, history, fetch_count, wasm_libs_built>>

\* build_web without the shutil.which("emcc") check.
build_web_glue_no_which ==
    /\ pc = "web_glue"
    /\ web_out' = web_out \cup {"odin.js"}
    /\ pc' = "web_emcc"
    /\ UNCHANGED <<artifacts, pipeline_locals, prev_release, runs, machine, game_alive, args, error, locals, launched,
                   log, sokol_dir, shdc_dir, pdb_dir_exists, pdb_files,
                   release_out, history, no_exec, fetch_count,
                   wasm_libs_built>>

\* Lines 288-330: copy odin.js, compose the emcc command, look for emcc.
build_web_glue ==
    /\ pc = "web_glue"
    /\ web_out' = web_out \cup {"odin.js"}
    /\ IF get_emscripten_env_command(args) \/ emcc_on_path
       THEN pc' = "web_emcc" /\ error' = error
       ELSE Exit("ToolchainNotFound")
    /\ UNCHANGED <<artifacts, pipeline_locals, prev_release, runs, machine, game_alive, args, locals, launched, log,
                   sokol_dir, shdc_dir, pdb_dir_exists, pdb_files,
                   release_out, history, no_exec, fetch_count,
                   wasm_libs_built>>

\* Lines 332-336: run emcc, remove the object file; the function returns None.
build_web_emcc ==
    /\ pc = "web_emcc"
    /\ \E res \in ExitStatuses :
        /\ execute("emcc", res, "main_run")
        /\ IF res = 0
           THEN /\ web_out' = (web_out \cup {"index.html"}) \ {"game.wasm.o"}
                /\ exe_path' = "None"
                /\ log' = Append(log, "returned")
           ELSE UNCHANGED <<web_out, exe_path, log>>
    /\ UNCHANGED <<artifacts, pipeline_locals, prev_release, runs, machine, game_alive, args, do_update, do_compile,
                   shader_i, game_running, pdb_number, pdb_index, launched,
                   sokol_dir, shdc_dir, pdb_dir_exists, pdb_files,
                   release_out, history, fetch_count, wasm_libs_built>>

\* ---------------------------------------- lines 138-245: build_hot_reload
\* Lines 471-480: TASKLIST / pgrep report the process when it is running.
process_exists(alive) == alive

\* The component compiled straight to its final name on every host OS.
dll_target_final(system) == "game"

\* Lines 144-149: the file the component is compiled to: game<ext>, on
\* Linux and macOS game_tmp<ext>.
dll_target(system) ==
    IF system = "Linux" \/ system = "Darwin" THEN "game_tmp" ELSE "game"

\* Lines 139-163: make_dirs(out_dir), name the files, probe for the process.
build_hot_reload ==
    /\ pc = "build_hot_reload"
    /\ dll' = dll_target(SYSTEM)
    /\ game_running' = process_exists(game_alive)
    /\ probes' = probes + 1
    /\ pc' = IF IS_WINDOWS THEN "hot_reload_pdb" ELSE "hot_reload_dll"
    /\ UNCHANGED <<artifacts, shader_langs, reset_done, lib_copies,
                   prev_release, runs, machine, game_alive, args, error,
                   do_update, do_compile,
                   exe_path, shader_i, pdb_number, pdb_index, launched, log,
                   disk, history, no_exec, fetch_count, wasm_libs_built>>

\* One listing of the files S.
SetToSeq(S) == CHOOSE l \in [1..Cardinality(S) -> S] :
                   \A x \in S : \E i \in 1..Cardinality(S) : l[i] = x

\* Every order in which os.listdir may list the files S.
Listings(S) ==
    {l \in [1..Cardinality(S) -> S] :
        \A i, j \in 1..Cardinality(S) : i # j => l[i] # l[j]}

\* The scan without the comparison: the file listed last wins.
pdb_keep_last(n, number) == n

\* Lines 185-186: keep the larger of n and pdb_number.
pdb_keep(n, number) == IF n > number THEN n ELSE number

\* Lines 179-186: the scan of the listed symbol files.
RECURSIVE pdb_scan(_, _)
pdb_scan(listing, number) ==
    IF listing = <<>> THEN number
    ELSE pdb_scan(Tail(listing), pdb_keep(Head(listing), number))

\* A build that never resets the staging area.
staging_reset_never(running) == FALSE

\* A build that resets the staging area whatever the probe found.
staging_reset_always(running) == TRUE

\* Lines 165-166: the staging reset is done on Windows when nothing runs.
staging_reset(running) == ~running

\* Lines 165-190 (Windows): staging reset, symbol directory, symbol index.
build_hot_reload_pdb ==
    /\ pc = "hot_reload_pdb"
    /\ LET reset == staging_reset(game_running)
           exists == pdb_dir_exists /\ ~reset
           files == IF reset THEN {} ELSE pdb_files
       IN  /\ Cardinality(files) < MaxPdbFiles
           /\ pdb_dir_exists' = TRUE
           /\ pdb_files' = files
           /\ \E listing \in Listings(files) :
                pdb_number' = IF exists THEN pdb_scan(listing, 0) ELSE 0
           /\ gen_used_index' = IF reset THEN 0 ELSE gen_used_index
           /\ gen_written_index' = IF reset THEN 0 ELSE gen_written_index
           /\ reset_done' = reset
           /\ dll_final' = IF reset THEN Absent ELSE dll_final
           /\ dll_copies' = IF reset THEN FALSE ELSE dll_copies
    /\ pdb_index' = pdb_number' + 1
    /\ pc' = "hot_reload_dll"
    /\ UNCHANGED <<assets, lib_src, lib_dest, dll_tmp, lib_staged,
                   shader_langs, dll, probes, lib_copies, prev_release, runs,
                   machine, game_alive, args, error, do_update, do_compile,
                   exe_path, shader_i, game_running, launched, log, sokol_dir,
                   shdc_dir, web_out, release_out, max_written_index, no_exec,
                   fetch_count, wasm_libs_built>>

\* The branch on the probe's result the other way round.
hot_reload_after_dll_inverted(running) ==
    IF running THEN "hot_reload_exe" ELSE "main_run"

\* The branch on the probe's result left out: the executable is always built.
hot_reload_after_dll_always_exe(running) == "hot_reload_exe"

\* Lines 198-204: with the process running the pipeline returns "" here.
hot_reload_after_dll(running) ==
    IF running THEN "main_run" ELSE "hot_reload_exe"

\* Lines 192-204: compile the component to the file dll names, on Linux and
\* macOS rename it to the final name; the compiler writes game_<i>.pdb when
\* debug information is asked for. A failed compile leaves its output file
\* as it was or broken.
build_hot_reload_dll ==
    /\ pc = "hot_reload_dll"
    /\ \E res \in ExitStatuses :
        LET next == hot_reload_after_dll(game_running)
            written == res = 0 /\ IS_WINDOWS /\ args.debug
        IN  /\ execute("odin build dll", res, next)
            /\ pdb_files' = IF written THEN pdb_files \cup {pdb_index}
                            ELSE pdb_files
            /\ gen_written_index' = IF written /\ pdb_index > gen_written_index
                                    THEN pdb_index ELSE gen_written_index
            /\ max_written_index' = IF written /\ pdb_index > max_written_index
                                    THEN pdb_index ELSE max_written_index
            /\ IF res = 0 /\ next = "main_run"
               THEN exe_path' = "" /\ log' = Append(log, "returned")
               ELSE UNCHANGED <<exe_path, log>>
            /\ \E out \in IF res = 0 THEN {"new"}
                           ELSE {Partial,
                                 IF dll = "game" THEN dll_final ELSE dll_tmp} :
                LET tmp == IF dll = "game_tmp" THEN out ELSE dll_tmp
                    final == IF dll = "game" THEN out ELSE dll_final
                    renamed == /\ res = 0
                               /\ IS_LINUX \/ IS_OSX
                               /\ dll = "game_tmp"
                IN  /\ dll_final' = IF renamed THEN tmp ELSE final
                    /\ dll_tmp' = IF renamed THEN Absent ELSE tmp
    /\ gen_used_index' = IF pdb_index > gen_used_index THEN pdb_index
                         ELSE gen_used_index
    /\ UNCHANGED <<assets, lib_src, lib_dest, dll_copies, lib_staged,
                   pipeline_locals, prev_release, runs, machine, game_alive,
                   args, do_update, do_compile,
                   shader_i, game_running, pdb_number, pdb_index, launched,
                   sokol_dir, shdc_dir, pdb_dir_exists, web_out, release_out,
                   fetch_count, wasm_libs_built>>

\* Lines 206-218: compile the host executable.
build_hot_reload_exe ==
    /\ pc = "hot_reload_exe"
    /\ \E res \in ExitStatuses :
        execute("odin build main_hot_reload", res, "hot_reload_stage")
    /\ UNCHANGED <<artifacts, pipeline_locals, prev_release, runs, machine, game_alive, args, locals, launched, log, disk,
                   history, fetch_count, wasm_libs_built>>

\* Lines 221-223: the Windows runtime library the options select.
dll_name(a) ==
    IF a.gl
    THEN IF a.debug THEN "gl_debug" ELSE "gl_release"
    ELSE IF a.debug THEN "d3d11_debug" ELSE "d3d11_release"

\* Lines 220-243: the libraries build_hot_reload hands to
\* copy_file_if_different.
staged_libs(system, a) ==
    IF system = "Windows" THEN {dll_name(a)}
    ELSE IF system = "Darwin" THEN Dylibs
    ELSE {}

\* The time of a copy: later than every modification time a file had
\* before the first invocation.
Now == CHOOSE t \in 0..Cardinality(SrcTimes) : \A m \in SrcTimes : t > m

\* copy_file_if_different's test with the comparison of the modification
\* times left out.
do_copy_size_only(src, dest) ==
    \/ ~dest.exists
    \/ dest.size # src.size

\* Lines 494-498: do_copy.
do_copy(src, dest) ==
    \/ ~dest.exists
    \/ dest.size # src.size
    \/ dest.mtime # src.mtime

\* Line 502: shutil.copyfile copies the content; the destination's
\* modification time is the time of the write.
copyfile(src, now) == [exists |-> TRUE, size |-> src.size, mtime |-> now]

\* Lines 493-503.
copy_file_if_different(src, dest, now) ==
    IF do_copy(src, dest) THEN copyfile(src, now) ELSE dest

\* Lines 220-245: stage the runtime libraries, return "./" + exe.
build_hot_reload_stage ==
    /\ pc = "hot_reload_stage"
    /\ \E dylib_folder \in BOOLEAN :
        /\ dylib_folder => sokol_dir = "present"
        /\ IF IS_OSX /\ ~dylib_folder
           THEN /\ Exit("PlatformPrerequisiteMissing")
                /\ UNCHANGED <<exe_path, log, lib_dest, lib_copies>>
           ELSE /\ lib_dest' =
                    [l \in Libs |->
                        IF l \in staged_libs(SYSTEM, args)
                        THEN copy_file_if_different(lib_src[l], lib_dest[l],
                                                    Now)
                        ELSE lib_dest[l]]
                /\ lib_copies' =
                    [l \in Libs |->
                        IF /\ l \in staged_libs(SYSTEM, args)
                           /\ do_copy(lib_src[l], lib_dest[l])
                        THEN lib_copies[l] + 1
                        ELSE lib_copies[l]]
                /\ pc' = "main_run"
                /\ error' = error
                /\ exe_path' = "./game_hot_reload"
                /\ log' = Append(log, "returned")
    /\ UNCHANGED <<assets, lib_src, dll_final, dll_tmp, dll_copies,
                   lib_staged, shader_langs, dll, probes, reset_done,
                   prev_release, runs, machine, game_alive, args, do_update,
                   do_compile,
                   shader_i, game_running, pdb_number, pdb_index, launched,
                   disk, history, no_exec, fetch_count, wasm_libs_built>>

\* ------------------------------------------------------ lines 81-83: main
\* Lines 81-83: launch what the pipeline returned; "Starting " + None raises.
main_run ==
    /\ pc = "main_run"
    /\ IF exe_path # "" /\ args.run
       THEN IF exe_path = "None"
            THEN /\ Exit("TypeError")
                 /\ UNCHANGED <<launched, log, game_alive>>
            ELSE /\ Exit("none")
                 /\ launched' = TRUE
                 /\ log' = Append(log, "launch")
                 /\ game_alive' = (game_alive \/ exe_path = "./game_hot_reload")
       ELSE /\ Exit("none")
            /\ UNCHANGED <<launched, log, game_alive>>
    /\ UNCHANGED <<artifacts, pipeline_locals, prev_release, runs, machine, args, locals, disk, history, no_exec,
                   fetch_count, wasm_libs_built>>

\* ------------------------------------------------------------ environment
\* The target process starts or exits on its own. Only the probe of
\* build_hot_reload reads it, so the model lets it change from the entry of
\* that pipeline on.
game_starts_or_exits ==
    /\ pc \in {"build_hot_reload", "hot_reload_pdb", "hot_reload_dll",
               "hot_reload_exe", "hot_reload_stage"}
    /\ game_alive' = ~game_alive
    /\ UNCHANGED <<artifacts, pipeline_locals, prev_release, runs, machine, args, pc, error, locals, launched, log,
                   disk, history, no_exec, fetch_count, wasm_libs_built>>

\* The interpreter has exited; the next invocation finds the disk as it is.
process_ends ==
    /\ pc = "exited"
    /\ runs < MaxRuns
    /\ runs' = runs + 1
    /\ pc' = "start"
    /\ args' = NoRequest
    /\ error' = "none"
    /\ do_update' = FALSE
    /\ do_compile' = FALSE
    /\ exe_path' = ""
    /\ launched' = FALSE
    /\ log' = <<>>
    /\ shader_i' = 0
    /\ game_running' = FALSE
    /\ pdb_number' = 0
    /\ pdb_index' = 0
    /\ cmds' = <<>>
    /\ fetch_count' = 0
    /\ cmd_failed' = FALSE
    /\ wasm_libs_built' = FALSE
    /\ shader_langs' = {}
    /\ dll' = ""
    /\ probes' = 0
    /\ reset_done' = FALSE
    /\ lib_copies' = [l \in Libs |-> 0]
    /\ lib_staged' = IF exe_path = "./game_hot_reload"
                     THEN lib_staged \cup staged_libs(SYSTEM, args)
                     ELSE lib_staged
    /\ dll_final' = aged(dll_final)
    /\ dll_tmp' = aged(dll_tmp)
    /\ UNCHANGED <<machine, game_alive, disk, history, assets, lib_src,
                   lib_dest, dll_copies, prev_release>>

\* The asset tree is edited between two invocations.
assets_change ==
    /\ pc = "start"
    /\ \E files \in SUBSET AssetFiles :
        /\ files # assets
        /\ assets' = files
    /\ UNCHANGED <<machine, game_alive, args, pc, error, locals, launched,
                   log, disk, history, no_exec, fetch_count, wasm_libs_built,
                   runs, pipeline_locals, prev_release, lib_src, lib_dest,
                   dll_final, dll_tmp, dll_copies, lib_staged>>

\* --------------------------------------------------------- specifications
Next ==
    \/ parse_args(Requests)
    \/ validate
    \/ main_update
    \/ update_sokol_bindings
    \/ update_sokol_shdc
    \/ update_sokol_shdc_chmod
    \/ main_compile
    \/ compile_sokol
    \/ compile_sokol_native
    \/ compile_sokol_wasm
    \/ main_shaders
    \/ get_shader_compiler
    \/ build_shaders
    \/ main_dispatch
    \/ build_release
    \/ build_release_compile
    \/ build_web
    \/ build_web_glue
    \/ build_web_emcc
    \/ build_hot_reload
    \/ build_hot_reload_pdb
    \/ build_hot_reload_dll
    \/ build_hot_reload_exe
    \/ build_hot_reload_stage
    \/ main_run
    \/ game_starts_or_exits

Spec == Init /\ [][Next]_vars

\* Successive hot-reload builds on Windows over a symbol directory that
\* already holds files.
InitPdb ==
    /\ InitCommon
    /\ SYSTEM = "Windows"
    /\ emcc_on_path = FALSE
    /\ sokol_dir = "present"
    /\ shdc_dir = "present"
    /\ pdb_files \in {S \in SUBSET (1..MaxSuffix) :
                        Cardinality(S) < MaxPdbFiles}
    /\ pdb_dir_exists \in {TRUE, pdb_files # {}}
    /\ max_written_index = pdb_scan(SetToSeq(pdb_files), 0)
    /\ gen_used_index = max_written_index
    /\ gen_written_index = max_written_index
    /\ InitArtifacts

NextPdb ==
    \/ parse_args(HotReloadRequests)
    \/ validate
    \/ main_update
    \/ main_compile
    \/ main_shaders
    \/ main_dispatch
    \/ build_hot_reload
    \/ build_hot_reload_pdb
    \/ build_hot_reload_dll
    \/ build_hot_reload_exe
    \/ build_hot_reload_stage
    \/ main_run
    \/ game_starts_or_exits
    \/ process_ends

SpecPdb == InitPdb /\ [][NextPdb]_vars

\* Repeated invocations that build a release, refresh or compile the
\* dependencies, shaders suppressed.
RepeatRequests ==
    {a \in Requests : /\ ~a.hot_reload /\ ~a.web /\ ~a.run /\ ~a.debug
                      /\ ~a.gl /\ a.no_shader_compile
                      /\ a.emsdk_path = "None"}

NextRepeat ==
    \/ parse_args(RepeatRequests)
    \/ validate
    \/ main_update
    \/ update_sokol_bindings
    \/ update_sokol_shdc
    \/ update_sokol_shdc_chmod
    \/ main_compile
    \/ compile_sokol
    \/ compile_sokol_native
    \/ compile_sokol_wasm
    \/ main_shaders
    \/ main_dispatch
    \/ build_release
    \/ build_release_compile
    \/ main_run
    \/ process_ends

SpecRepeat == Init /\ [][NextRepeat]_vars

\* Repeated hot-reload builds on every host OS, started with the runtime
\* libraries staged or not: the staged copy is missing, equal to its source
\* in size and modification time, or different in one of the two.
InitStage ==
    /\ InitCommon
    /\ emcc_on_path = FALSE
    /\ sokol_dir = "present"
    /\ shdc_dir = "present"
    /\ pdb_dir_exists = FALSE
    /\ pdb_files = {}
    /\ max_written_index = 0
    /\ gen_used_index = 0
    /\ gen_written_index = 0
    /\ assets = AssetFiles
    /\ dll_final = Absent
    /\ dll_copies = FALSE
    /\ \E t \in SrcTimes :
        lib_src = [l \in Libs |-> [exists |-> TRUE, size |-> 10, mtime |-> t]]
    /\ \E d \in {NoFile} \cup [exists : {TRUE}, size : Sizes, mtime : SrcTimes] :
        lib_dest = [l \in Libs |-> d]

StageRequests == {a \in HotReloadRequests : ~a.debug}

NextStage ==
    \/ parse_args(StageRequests)
    \/ validate
    \/ main_update
    \/ main_compile
    \/ main_shaders
    \/ main_dispatch
    \/ build_hot_reload
    \/ build_hot_reload_pdb
    \/ build_hot_reload_dll
    \/ build_hot_reload_exe
    \/ build_hot_reload_stage
    \/ main_run
    \/ game_starts_or_exits
    \/ process_ends

SpecStage == InitStage /\ [][NextStage]_vars

\* Repeated hot-reload builds on every host OS, started with or without a
\* component, other library files and a symbol file left in the output
\* folder by earlier builds.
InitHot ==
    /\ InitCommon
    /\ emcc_on_path = FALSE
    /\ sokol_dir = "present"
    /\ shdc_dir = "present"
    /\ pdb_dir_exists \in BOOLEAN
    /\ pdb_files = IF pdb_dir_exists /\ IS_WINDOWS THEN {1} ELSE {}
    /\ max_written_index = pdb_scan(SetToSeq(pdb_files), 0)
    /\ gen_used_index = max_written_index
    /\ gen_written_index = max_written_index
    /\ assets = AssetFiles
    /\ lib_src = [l \in Libs |-> [exists |-> TRUE, size |-> 10, mtime |-> 0]]
    /\ lib_dest = [l \in Libs |-> NoFile]
    /\ dll_final \in {Absent, "old"}
    /\ dll_copies \in BOOLEAN

HotRequests == {a \in HotReloadRequests : ~a.gl}

NextHot ==
    \/ parse_args(HotRequests)
    \/ validate
    \/ main_update
    \/ main_compile
    \/ main_shaders
    \/ main_dispatch
    \/ build_hot_reload
    \/ build_hot_reload_pdb
    \/ build_hot_reload_dll
    \/ build_hot_reload_exe
    \/ build_hot_reload_stage
    \/ main_run
    \/ game_starts_or_exits
    \/ process_ends

SpecHot == InitHot /\ [][NextHot]_vars

\* Repeated release builds of a checkout whose asset tree changes between
\* the invocations.
ReleaseRequests ==
    {a \in Requests : /\ a.release /\ ~a.hot_reload /\ ~a.web
                      /\ ~a.update_sokol /\ ~a.compile_sokol /\ ~a.gl
                      /\ a.no_shader_compile /\ a.emsdk_path = "None"}

NextRelease ==
    \/ parse_args(ReleaseRequests)
    \/ validate
    \/ main_update
    \/ main_compile
    \/ main_shaders
    \/ main_dispatch
    \/ build_release
    \/ build_release_compile
    \/ main_run
    \/ process_ends
    \/ assets_change

SpecRelease == Init /\ [][NextRelease]_vars

TypeOK ==
    /\ SYSTEM \in Systems
    /\ args \in Requests
    /\ error \in Errors
    /\ sokol_dir \in {"absent", "present"}
    /\ shdc_dir \in {"absent", "present"}
    /\ shader_i \in 0..NumShaders
    /\ pdb_files # {} => pdb_dir_exists
    /\ Cardinality(pdb_files) <= MaxPdbFiles
    /\ exe_path \in {"", "None", "./game_hot_reload",
                     "build/release/game_release"}
    /\ shader_langs \subseteq {"glsl300es", "glsl430", "hlsl5", "glsl410",
                               "metal_macos"}
    /\ dll \in {"", "game", "game_tmp"}
    /\ probes \in 0..1
    /\ reset_done \in BOOLEAN
    /\ lib_copies \in [Libs -> 0..1]
    /\ assets \subseteq AssetFiles
    /\ prev_release \subseteq {"game_release"} \cup AssetFiles
    /\ release_out \subseteq {"game_release"} \cup AssetFiles
    /\ \A l \in Libs : lib_src[l].exists /\ lib_src[l].mtime \in SrcTimes
    /\ \A l \in Libs : lib_dest[l].mtime \in SrcTimes \cup {Now}
    /\ dll_final \in Contents
    /\ dll_tmp \in Contents
    /\ dll_copies \in BOOLEAN
    /\ lib_staged \subseteq Libs

\* ----------------------------------------------------------------- claims
InLog(e) == \E i \in 1..Len(log) : log[i] = e

Ran(cmd) == \E i \in 1..Len(cmds) : cmds[i] = cmd

MaxOf(S) == IF S = {} THEN 0 ELSE CHOOSE m \in S : \A x \in S : x <= m

Pipelines == {"build_release", "build_web", "build_hot_reload"}

PipelinePcs ==
    {"build_release", "release_compile", "build_web", "web_glue", "web_emcc",
     "build_hot_reload", "hot_reload_pdb", "hot_reload_dll", "hot_reload_exe",
     "hot_reload_stage"}

\* The request is one the validation of lines 40-45 rejects.
Invalid(a) ==
    \/ a.hot_reload /\ a.release
    \/ a.hot_reload /\ a.web
    \/ a.release /\ a.web
    \/ ~a.hot_reload /\ ~a.release /\ ~a.web /\ ~a.update_sokol
         /\ ~a.compile_sokol

Started == pc \notin {"start", "validate"}

C2_NoLaunchWhenRunning ==
    game_running => exe_path = "" /\ ~launched

C2_Witness ==
    /\ pc = "exited"
    /\ game_running
    /\ args.run
    /\ InLog("returned")
    /\ error = "none"
    /\ ~launched

\* C3: the index a hot-reload build passes to the compiler is 1 plus the
\* largest suffix among the symbol files in the directory as scanned,
\* whatever the listing order, and 1 when there is none.
C3_IndexIsMaxPlusOne ==
    pc = "hot_reload_dll" /\ IS_WINDOWS => pdb_index = MaxOf(pdb_files) + 1

C3_Witness ==
    /\ pc = "hot_reload_dll"
    /\ pdb_files = {1, 3, 7}
    /\ pdb_index = 8

Rank(e) ==
    CASE e = "bootstrap" -> 1
      [] e = "compile_sokol" -> 2
      [] e = "shaders" -> 3
      [] e \in Pipelines -> 4
      [] e = "returned" -> 5
      [] e = "launch" -> 6

CmdRank(c) ==
    CASE c = "chmod" -> 1
      [] c \in {"build_clibs", "build_clibs_wasm"} -> 2
      [] c = "sokol-shdc" -> 3
      [] OTHER -> 4

Matches(e, a) ==
    \/ e = "build_release" /\ a.release
    \/ e = "build_web" /\ a.web
    \/ e = "build_hot_reload" /\ a.hot_reload

\* C4: a validated invocation goes through bootstrap, dependency compile,
\* shaders, one pipeline and the launch in that order: a pipeline starts only
\* with the shaders compiled or suppressed, it is the one the mode flag
\* names, and a launch follows its return.
C4_FixedOrder ==
    /\ \A i, j \in 1..Len(log) : i < j => Rank(log[i]) < Rank(log[j])
    /\ \A i, j \in 1..Len(cmds) : i < j => CmdRank(cmds[i]) <= CmdRank(cmds[j])
    /\ \A i \in 1..Len(log) :
         log[i] \in Pipelines =>
            /\ Matches(log[i], args)
            /\ args.no_shader_compile \/ shader_i = NumShaders
    /\ pc \in PipelinePcs => \E e \in Pipelines : InLog(e)
    /\ InLog("bootstrap") => do_update
    /\ InLog("compile_sokol") => do_compile
    /\ Ran("sokol-shdc") => ~args.no_shader_compile
    /\ launched => InLog("returned") /\ InLog("launch") /\ args.run

C4_Witness ==
    /\ pc = "exited"
    /\ log = <<"bootstrap", "compile_sokol", "shaders", "build_hot_reload",
               "returned", "launch">>

\* C5: once a command run through execute has returned non-zero the
\* invocation has ended with status 1: the failed command is the last one
\* run, no further shader is compiled, nothing is returned or launched.
C5_FailFast ==
    cmd_failed =>
        /\ pc = "exited"
        /\ error = "ExternalProcessFailure"
        /\ exe_path = ""
        /\ ~launched
        /\ ~InLog("returned")
        /\ cmds[Len(cmds)] = "sokol-shdc" =>
              shader_i < NumShaders /\ \A e \in Pipelines : ~InLog(e)

C5_Witness ==
    /\ cmd_failed
    /\ pc = "exited"
    /\ shader_i = 1
    /\ cmds = <<"sokol-shdc", "sokol-shdc">>

\* C6: a request with more than one build mode, or with none and no
\* dependency action, ends with status 1 and no step of it changes the disk,
\* fetches, runs a command or launches anything.
C6_InvalidRequestDoesNothing ==
    /\ [](Invalid(args) /\ Started =>
            /\ pc = "exited"
            /\ error = "ConfigurationError"
            /\ cmds = <<>>
            /\ fetch_count = 0
            /\ log = <<>>
            /\ ~launched)
    /\ [][Invalid(args') => disk' = disk /\ artifacts' = artifacts]_vars

C6_Witness ==
    /\ pc = "exited"
    /\ error = "ConfigurationError"
    /\ args.release
    /\ args.web
    /\ args.update_sokol

\* The shader compiler is missing and this invocation did not bootstrap.
ShdcMissing ==
    /\ Started
    /\ pc # "main"
    /\ ~Invalid(args)
    /\ ~args.no_shader_compile
    /\ shdc_dir = "absent"
    /\ ~do_update

EmccMissing ==
    /\ pc = "exited"
    /\ InLog("build_web")
    /\ args.emsdk_path = "None"
    /\ ~emcc_on_path
    /\ ~cmd_failed

\* C8 as stated: the web pipeline then fails with the toolchain-not-found
\* error before any compile command has run, leaving no output artifact.
C8_Original ==
    EmccMissing =>
        /\ error = "ToolchainNotFound"
        /\ ~Ran("odin build main_web")
        /\ web_out = {}

\* C8 as amended: the web pipeline then fails with the toolchain-not-found
\* error before the emcc command is run, so no index.html is produced; the
\* object compile has run by then, and game.wasm.o and odin.js are left in
\* build/web.
C8_FailsBeforeEmcc ==
    EmccMissing =>
        /\ error = "ToolchainNotFound"
        /\ ~Ran("emcc")
        /\ Ran("odin build main_web")
        /\ web_out = {"game.wasm.o", "odin.js"}
        /\ ~launched

C8_Witness ==
    /\ EmccMissing
    /\ error = "ToolchainNotFound"
    /\ args.run
    /\ web_out = {"game.wasm.o", "odin.js"}

\* The bootstrap gate has just been passed: the disk is as main found it.
AfterGate ==
    \/ pc = "update_sokol_bindings"
    \/ pc = "main_compile" /\ ~do_update

BothAbsent == sokol_dir = "absent" /\ shdc_dir = "absent"

\* C9 as stated: the bootstrap runs iff both artifact directories are
\* absent, or an update is requested, or the compile step is requested.
C9_Original ==
    AfterGate =>
        (InLog("bootstrap") <=>
            (BothAbsent \/ args.update_sokol \/ args.compile_sokol))

\* C9 as amended: the bootstrap runs iff both artifact directories are
\* absent or an update is requested; a compile request alone does not
\* trigger it, and the compile step runs iff the bootstrap ran or the
\* compile step was requested.
C9_BootstrapGate ==
    /\ AfterGate =>
         /\ InLog("bootstrap") <=> (BothAbsent \/ args.update_sokol)
         /\ pc = "update_sokol_bindings" <=> InLog("bootstrap")
    /\ fetch_count > 0 => InLog("bootstrap")
    /\ pc \in {"main_shaders", "compile_sokol"} =>
         (InLog("compile_sokol") <=> (InLog("bootstrap") \/ args.compile_sokol))

C9_Witness ==
    /\ pc = "compile_sokol"
    /\ args.compile_sokol
    /\ ~args.update_sokol
    /\ ~InLog("bootstrap")
    /\ sokol_dir = "absent"
    /\ shdc_dir = "present"

\* C10: with both artifacts present and no update requested, no step of an
\* invocation fetches an archive or deletes or replaces an artifact
\* directory, however many such invocations follow one another.
C10_BootstrapIdempotent ==
    [][(pc # "start" /\ sokol_dir = "present" /\ shdc_dir = "present"
            /\ ~args.update_sokol) =>
          /\ fetch_count' <= fetch_count
          /\ sokol_dir' = sokol_dir
          /\ shdc_dir' = shdc_dir
          /\ pc' \notin {"update_sokol_bindings", "update_sokol_shdc"}]_vars

C10_Witness ==
    /\ runs >= 2
    /\ pc = "exited"
    /\ error = "none"
    /\ args.compile_sokol
    /\ ~args.update_sokol
    /\ sokol_dir = "present"
    /\ shdc_dir = "present"
    /\ fetch_count = 0
    /\ ~InLog("bootstrap")

\* C11: when the fetch of an artifact's archive fails during the bootstrap,
\* the invocation ends there with a failure: the artifact whose fetch failed
\* has no directory, the first artifact is installed if the failure was the
\* second fetch, no later artifact is touched, and no dependency compile,
\* shader compile, pipeline, external command or launch happens.
C11_FetchFailureAborts ==
    /\ [](error = "NetworkFailure" =>
            /\ pc = "exited"
            /\ fetch_count \in {1, 2}
            /\ fetch_count = 1 => sokol_dir = "absent"
            /\ fetch_count = 2 => sokol_dir = "present" /\ shdc_dir = "absent"
            /\ cmds = <<>>
            /\ ~InLog("compile_sokol")
            /\ ~InLog("shaders")
            /\ \A p \in Pipelines : ~InLog(p)
            /\ ~launched)
    /\ [][error' = "NetworkFailure" /\ fetch_count' = 1
            => shdc_dir' = shdc_dir]_vars

C11_Witness ==
    /\ error = "NetworkFailure"
    /\ fetch_count = 1
    /\ args.compile_sokol
    /\ args.hot_reload
    /\ shdc_dir = "present"

\* C12: after every successful release build the release output directory
\* holds exactly the executable and the files of the asset tree as it is
\* now: nothing an earlier release run left there remains.
C12_ReleaseOutputIsFresh ==
    args.release /\ InLog("returned")
        => release_out = {"game_release"} \cup assets

C12_Witness ==
    /\ args.release
    /\ InLog("returned")
    /\ prev_release = {"game_release", "atlas.png"}
    /\ release_out = {"game_release", "level.json"}

\* The destination of library l differs from its source: it is missing, or
\* its size or its modification time is not the source's.
Differs(l) ==
    \/ ~lib_dest[l].exists
    \/ lib_dest[l].size # lib_src[l].size
    \/ lib_dest[l].mtime # lib_src[l].mtime

\* The step in which build_hot_reload stages the runtime libraries.
StagingStep == pc = "hot_reload_stage" /\ pc' = "main_run"

\* C13: a call of copy_file_if_different writes the destination exactly
\* once when it is missing or differs from the source in size or in
\* modification time, and then the destination has the source's size; it
\* writes nothing and leaves the destination as it is when it exists with
\* the source's size and modification time.
C13_CopyOnlyIfDifferent ==
    [][StagingStep =>
        \A l \in staged_libs(SYSTEM, args) :
            IF Differs(l)
            THEN /\ lib_copies'[l] = lib_copies[l] + 1
                 /\ lib_dest'[l].exists
                 /\ lib_dest'[l].size = lib_src[l].size
            ELSE /\ lib_copies'[l] = lib_copies[l]
                 /\ lib_dest'[l] = lib_dest[l]]_vars

C13_Witness ==
    /\ pc = "main_run"
    /\ exe_path = "./game_hot_reload"
    /\ IS_WINDOWS
    /\ lib_copies[dll_name(args)] = 0
    /\ lib_dest[dll_name(args)] = lib_src[dll_name(args)]

\* C14 as stated: once a build has staged a runtime library through
\* copy_file_if_different, a later build does not write the staged file
\* again while the source library is unchanged.
C14_StagingIdempotent ==
    [][StagingStep =>
        \A l \in staged_libs(SYSTEM, args) \cap lib_staged :
            /\ lib_copies'[l] = lib_copies[l]
            /\ lib_dest'[l] = lib_dest[l]]_vars

\* A second build has staged again a library the first build copied.
C14_Witness ==
    /\ pc = "main_run"
    /\ runs = 1
    /\ \E l \in staged_libs(SYSTEM, args) \cap lib_staged :
        /\ lib_copies[l] = 1
        /\ lib_dest[l].mtime = Now

\* C15: every shader compile of an invocation gets the same dialect, and
\* the dialect depends on the host OS, the force-GL option and the web mode
\* alone: one dialect for a web build on every OS whatever force-GL says,
\* two on Windows and two on macOS chosen by force-GL, one on Linux.
C15_DialectTable ==
    /\ Cardinality(shader_langs) <= 1
    /\ \A l \in shader_langs :
        /\ args.web => l = "glsl300es"
        /\ ~args.web /\ IS_WINDOWS /\ args.gl => l = "glsl430"
        /\ ~args.web /\ IS_WINDOWS /\ ~args.gl => l = "hlsl5"
        /\ ~args.web /\ IS_LINUX => l = "glsl430"
        /\ ~args.web /\ IS_OSX /\ args.gl => l = "glsl410"
        /\ ~args.web /\ IS_OSX /\ ~args.gl => l = "metal_macos"

C15_Witness ==
    /\ shader_i = NumShaders
    /\ shader_langs = {"glsl300es"}
    /\ IS_WINDOWS
    /\ args.web
    /\ args.gl
    /\ args.debug

\* C16 as stated: when the dependency compile step has ended without a
\* failure, on every host OS the web (WASM) library build was run if the
\* web toolchain is on the path or an override location was given, and was
\* not run, with the invocation going on, if neither is so.
C16_WasmLibsWhenToolchainKnown ==
    pc = "main_shaders" /\ InLog("compile_sokol") =>
        /\ error = "none"
        /\ Ran("build_clibs_wasm")
                <=> (emcc_on_path \/ args.emsdk_path # "None")

\* The compile step has ended on Linux with an override location given and
\* no web library build was run.
C16_Witness ==
    /\ pc = "main_shaders"
    /\ InLog("compile_sokol")
    /\ IS_LINUX
    /\ args.emsdk_path # "None"
    /\ ~Ran("build_clibs_wasm")
    /\ ~wasm_libs_built

\* The step in which build_hot_reload compiles the component.
ComponentStep == pc = "hot_reload_dll" /\ pc' # "hot_reload_dll"

\* C17: on Linux and macOS the compiler is never told to write the final
\* component file: the component is compiled to the temporary name, the
\* final file changes only in a compile step that succeeded, which leaves
\* the new build under the final name and no temporary file, and a failed
\* compile leaves the final file as it was.
C17_FinalOnlyByRename ==
    /\ [](IS_LINUX \/ IS_OSX =>
            /\ dll \in {"", "game_tmp"}
            /\ Ran("odin build dll") => dll = "game_tmp")
    /\ [][IS_LINUX \/ IS_OSX =>
            /\ ComponentStep /\ cmd_failed' => dll_final' = dll_final
            /\ ComponentStep /\ ~cmd_failed' =>
                    dll_final' = "new" /\ dll_tmp' = Absent
            /\ dll_final' \notin {dll_final, aged(dll_final)}
                    => ComponentStep /\ ~cmd_failed']_vars

\* A failed compile on Linux left a broken temporary file and the component
\* an earlier invocation built.
C17_Witness ==
    /\ IS_LINUX
    /\ pc = "exited"
    /\ cmd_failed
    /\ cmds = <<"odin build dll">>
    /\ dll_tmp = Partial
    /\ dll_final = "old"
    /\ runs > 0

\* The hot-reload pipeline is past its staging reset.
PastReset ==
    /\ InLog("build_hot_reload")
    /\ pc \notin {"build_hot_reload", "hot_reload_pdb"}

\* A step removes a component library or a symbol file that was there.
Deletes ==
    \/ dll_final # Absent /\ dll_final' = Absent
    \/ dll_copies /\ ~dll_copies'
    \/ \E f \in pdb_files : f \notin pdb_files'
    \/ pdb_dir_exists /\ ~pdb_dir_exists'

\* C18: the staging reset is done exactly when the host OS is Windows and
\* the probe found no running process; it leaves no dynamic-library file in
\* the output folder and no symbol file; no other step of a build, so no
\* build on Linux or macOS and none whose probe found the process running,
\* removes a component library or a symbol file.
C18_ResetOnlyWindowsNotRunning ==
    /\ [](PastReset => (reset_done <=> IS_WINDOWS /\ ~game_running))
    /\ [][pc = "hot_reload_pdb" /\ pc' = "hot_reload_dll" /\ ~game_running =>
            /\ dll_final' = Absent
            /\ ~dll_copies'
            /\ pdb_files' = {}]_vars
    /\ [][Deletes =>
            /\ pc = "hot_reload_pdb"
            /\ IS_WINDOWS
            /\ ~game_running]_vars

\* A reset on Windows has removed the component, the other library files
\* and the symbol file an earlier build wrote.
C18_Witness ==
    /\ IS_WINDOWS
    /\ pc = "hot_reload_dll"
    /\ reset_done
    /\ runs = 0
    /\ max_written_index = 1
    /\ pdb_files = {}
    /\ dll_final = Absent
    /\ ~dll_copies

\* The component compile of this invocation has succeeded.
ComponentBuilt ==
    /\ Ran("odin build dll")
    /\ ~(cmd_failed /\ cmds[Len(cmds)] = "odin build dll")

C20_RunOnlyWithExecutable ==
    /\ [][launched' /\ ~launched
            => exe_path \in {"build/release/game_release",
                             "./game_hot_reload"}]_vars
    /\ [][/\ pc = "main_run"
          /\ args.run
          /\ args.web \/ num_build_modes(args) = 0
          => /\ pc' = "exited"
             /\ ~launched'
             /\ error' = "none"]_vars

\* A web build with run-after-build has ended in main's launch step with a
\* TypeError.
C20_Witness ==
    /\ pc = "exited"
    /\ args.web
    /\ args.run
    /\ InLog("returned")
    /\ error = "TypeError"
    /\ ~launched

====
